---- MODULE Spec2Model ----
(***************************************************************************)
(* Model of the NIP-47 request handlers HandleSignMessageEvent and         *)
(* HandleMultiPayKeysendEvent (src/handle_sign_message_request.go).        *)
(*                                                                         *)
(* One request is handled per behaviour.  HandleMultiPayKeysendEvent       *)
(* starts one goroutine per batch element; every blocking call of a        *)
(* goroutine (checkPermission, mu.Lock, db.Create, SendKeysend,            *)
(* EventLogger.Log, db.Save, publishResponse) is a step of its own, so all *)
(* interleavings of the element goroutines are explored.                   *)
(***************************************************************************)
EXTENDS Integers, Sequences, FiniteSets, TLC

\* ------------------------------------------------------------------ bounds
MaxKeysends == 2

\* Deliveries of one RequestEvent to the handler.
MaxInvocations == 2

\* ------------------------------------------------------- values and inputs
NULL == "NULL"

Nil == [nil |-> TRUE]

NIP_47_ERROR_INTERNAL == "INTERNAL"

SignMethod == "sign_message"

MultiMethod == "multi_pay_keysend"


\* Elements a batch may be made of: with and without an Id, amounts in msat.
KeysendElements ==
  { [Id |-> "id1", Pubkey |-> "pk1", Amount |-> 1500],
    [Id |-> "",    Pubkey |-> "pk2", Amount |-> 500] }

Messages == {"hello", "bye"}

Signatures == {"sig1"}

Preimages == {"pre1", "pre2"}

BackendErrors == {"timeout"}

Batches == UNION { [1..n -> KeysendElements] : n \in 0..MaxKeysends }

Slots == 1..MaxKeysends

\* Raw params payloads: one that does not decode, and the well-formed ones.
SignParamsPayloads ==
  { [valid |-> FALSE, Message |-> ""] }
    \cup { [valid |-> TRUE, Message |-> m] : m \in Messages }

MultiParamsPayloads ==
  { [valid |-> FALSE, Keysends |-> << >>] }
    \cup { [valid |-> TRUE, Keysends |-> b] : b \in Batches }

VARIABLES
  handler,        \* which handler the dispatcher invoked
  request,        \* the Nip47Request: Method and Params
  pc,             \* position of the handler's own goroutine
  ret,            \* HandleMultiPayKeysendEvent's return value (err)
  signParams,     \* decoded Nip47SignMessageParams
  signResp,       \* HandleSignMessageEvent's local resp
  signResult,     \* (signature, err) returned by lnClient.SignMessage
  signCalls,      \* number of lnClient.SignMessage calls
  keysends,       \* decoded multiPayParams.Keysends
  k,              \* number of loop iterations done (goroutines started)
  wg,             \* sync.WaitGroup counter
  mu,             \* sync.Mutex: 0 when free, else the holding element
  epc,            \* position of each element goroutine
  resp,           \* each goroutine's local resp (checkPermission result)
  insertResult,   \* each goroutine's insertPaymentResult.Error
  sendResult,     \* each goroutine's (preimage, err) from SendKeysend
  saveResult,     \* outcome of each goroutine's svc.db.Save (ignored by code)
  payment,        \* each goroutine's local Payment struct
  db,             \* persisted Payment rows, by creating element
  createCalls,    \* number of svc.db.Create calls per element
  sendCalls,      \* number of lnClient.SendKeysend calls per element
  analytics,      \* events handed to svc.EventLogger.Log per element
  published,      \* publishResponse calls: unit 0 is the whole request
  runs,           \* invocations of the handler for this RequestEvent so far
  archive         \* Payment rows persisted by earlier invocations, per element

vars == << handler, request, pc, ret, signParams, signResp, signResult,
           signCalls, keysends, k, wg, mu, epc, resp, insertResult,
           sendResult, saveResult, payment, db, createCalls, sendCalls,
           analytics, published, runs, archive >>

signVars == << signParams, signResp, signResult, signCalls >>

elemVars == << epc, resp, insertResult, sendResult, saveResult, payment, db,
               createCalls, sendCalls, analytics >>

\* --------------------------------------------------------------- responses
ErrorResponse(method, code, message) ==
  [ResultType |-> method, Result |-> Nil,
   Error |-> [Code |-> code, Message |-> message]]

ResultResponse(method, result) ==
  [ResultType |-> method, Result |-> result, Error |-> Nil]

Publish(unit, response, tags) ==
  published' = [published EXCEPT ![unit] =
                  Append(@, [resp |-> response, tags |-> tags])]

\* ---------------------------------------------------------------- Init
Init ==
  /\ handler \in {"HandleSignMessageEvent", "HandleMultiPayKeysendEvent"}
  /\ \/ /\ handler = "HandleSignMessageEvent"
        /\ request \in { [Method |-> SignMethod, Params |-> p] :
                           p \in SignParamsPayloads }
     \/ /\ handler = "HandleMultiPayKeysendEvent"
        /\ request \in { [Method |-> MultiMethod, Params |-> p] :
                           p \in MultiParamsPayloads }
  /\ pc = "decode"
  /\ ret = "none"
  /\ signParams = NULL
  /\ signResp = Nil
  /\ signResult = Nil
  /\ signCalls = 0
  /\ keysends = << >>
  /\ k = 0
  /\ wg = 0
  /\ mu = 0
  /\ epc = [i \in Slots |-> "idle"]
  /\ resp = [i \in Slots |-> Nil]
  /\ insertResult = [i \in Slots |-> "none"]
  /\ sendResult = [i \in Slots |-> Nil]
  /\ saveResult = [i \in Slots |-> "none"]
  /\ payment = [i \in Slots |-> Nil]
  /\ db = [i \in Slots |-> Nil]
  /\ createCalls = [i \in Slots |-> 0]
  /\ sendCalls = [i \in Slots |-> 0]
  /\ analytics = [i \in Slots |-> << >>]
  /\ published = [u \in 0..MaxKeysends |-> << >>]
  /\ runs = 1
  /\ archive = [i \in Slots |-> 0]

\* ------------------------------------------- collaborators outside the file
\* svc.decodeNip47Request: nil when the params decode, else an error response.
DecodeErrorResponse(method) ==
  ErrorResponse(method, "BAD_REQUEST", "cannot decode params")

DenialCodes == {"QUOTA_EXCEEDED"}

\* svc.checkPermission: nil when allowed, else an error response.
CheckPermissionResults(method) ==
  {Nil} \cup { ErrorResponse(method, c, "permission denied") : c \in DenialCodes }

\* ------------------------------------------------- HandleSignMessageEvent
SignDecode ==
  /\ handler = "HandleSignMessageEvent"
  /\ pc = "decode"
  /\ IF ~request.Params.valid
       THEN /\ signResp' = DecodeErrorResponse(request.Method)
            /\ pc' = "decodeFailed"
            /\ UNCHANGED signParams
       ELSE /\ signResp' = Nil
            /\ signParams' = request.Params.Message
            /\ pc' = "check"
  /\ UNCHANGED << handler, request, runs, archive, ret, signResult, signCalls, keysends, k,
                  wg, mu, elemVars, published >>

SignPublishDecodeError ==
  /\ handler = "HandleSignMessageEvent"
  /\ pc = "decodeFailed"
  /\ Publish(0, signResp, << >>)
  /\ pc' = "returned"
  /\ UNCHANGED << handler, request, runs, archive, ret, signVars, keysends, k, wg, mu,
                  elemVars >>

SignCheckPermission ==
  /\ handler = "HandleSignMessageEvent"
  /\ pc = "check"
  /\ \E r \in CheckPermissionResults(request.Method) :
       /\ signResp' = r
       /\ pc' = IF r # Nil THEN "denied" ELSE "sign"
  /\ UNCHANGED << handler, request, runs, archive, ret, signParams, signResult, signCalls,
                  keysends, k, wg, mu, elemVars, published >>

\* Variant: the denial is published but the handler does not return.
SignPublishDenied_NoReturn ==
  /\ handler = "HandleSignMessageEvent"
  /\ pc = "denied"
  /\ Publish(0, signResp, << >>)
  /\ pc' = "sign"
  /\ UNCHANGED << handler, request, runs, archive, ret, signVars, keysends, k,
                  wg, mu, elemVars >>

SignPublishDenied ==
  /\ handler = "HandleSignMessageEvent"
  /\ pc = "denied"
  /\ Publish(0, signResp, << >>)
  /\ pc' = "returned"
  /\ UNCHANGED << handler, request, runs, archive, ret, signVars, keysends, k, wg, mu,
                  elemVars >>

SignMessage ==
  /\ handler = "HandleSignMessageEvent"
  /\ pc = "sign"
  /\ signCalls' = signCalls + 1
  /\ \/ \E sig \in Signatures :
          /\ signResult' = [signature |-> sig, err |-> NULL]
          /\ pc' = "signed"
     \/ \E e \in BackendErrors :
          /\ signResult' = [signature |-> "", err |-> e]
          /\ pc' = "signFailed"
  /\ UNCHANGED << handler, request, runs, archive, ret, signParams, signResp, keysends, k,
                  wg, mu, elemVars, published >>

\* Variant: the error response is built without the ResultType.
SignErrorResponse_NoResultType ==
  ErrorResponse("", NIP_47_ERROR_INTERNAL, signResult.err)

SignErrorResponse ==
  ErrorResponse(request.Method, NIP_47_ERROR_INTERNAL, signResult.err)

SignPublishError ==
  /\ handler = "HandleSignMessageEvent"
  /\ pc = "signFailed"
  /\ Publish(0, SignErrorResponse, << >>)
  /\ pc' = "returned"
  /\ UNCHANGED << handler, request, runs, archive, ret, signVars, keysends, k, wg, mu,
                  elemVars >>

SignSuccessResponse ==
  ResultResponse(request.Method,
                 [Message |-> signParams, Signature |-> signResult.signature])

SignPublishResult ==
  /\ handler = "HandleSignMessageEvent"
  /\ pc = "signed"
  /\ Publish(0, SignSuccessResponse, << >>)
  /\ pc' = "returned"
  /\ UNCHANGED << handler, request, runs, archive, ret, signVars, keysends, k, wg, mu,
                  elemVars >>

SignNext ==
  \/ SignDecode
  \/ SignPublishDecodeError
  \/ SignCheckPermission
  \/ SignPublishDenied
  \/ SignMessage
  \/ SignPublishError
  \/ SignPublishResult

\* --------------------------------------------- HandleMultiPayKeysendEvent
\* json.Unmarshal(request.Params, multiPayParams); on error log and return err.
MultiDecode ==
  /\ handler = "HandleMultiPayKeysendEvent"
  /\ pc = "decode"
  /\ IF ~request.Params.valid
       THEN /\ ret' = "err"
            /\ pc' = "returned"
            /\ UNCHANGED keysends
       ELSE /\ keysends' = request.Params.Keysends
            /\ pc' = "loop"
            /\ UNCHANGED ret
  /\ UNCHANGED << handler, request, runs, archive, signVars, k, wg, mu, elemVars, published >>

\* One iteration of the range loop: wg.Add(1); go func(keysendInfo) {...}.
MultiSpawn ==
  /\ handler = "HandleMultiPayKeysendEvent"
  /\ pc = "loop"
  /\ k < Len(keysends)
  /\ k' = k + 1
  /\ wg' = wg + 1
  /\ epc' = [epc EXCEPT ![k + 1] = "check"]
  /\ UNCHANGED << handler, request, runs, archive, pc, ret, signVars, keysends, mu, resp,
                  insertResult, sendResult, saveResult, payment, db,
                  createCalls, sendCalls, analytics, published >>

\* Variant: an element's backend error ends up in the returned err.
MultiWait_ReturnsElementError ==
  /\ handler = "HandleMultiPayKeysendEvent"
  /\ pc = "loop"
  /\ k = Len(keysends)
  /\ wg = 0
  /\ ret' = IF \E i \in Slots : sendResult[i] # Nil /\ sendResult[i].err # NULL
              THEN "err" ELSE "nil"
  /\ pc' = "returned"
  /\ UNCHANGED << handler, request, runs, archive, signVars, keysends, k, wg,
                  mu, elemVars, published >>

\* Variant: the handler returns without wg.Wait().
MultiWait_NoWait ==
  /\ handler = "HandleMultiPayKeysendEvent"
  /\ pc = "loop"
  /\ k = Len(keysends)
  /\ ret' = "nil"
  /\ pc' = "returned"
  /\ UNCHANGED << handler, request, runs, archive, signVars, keysends, k, wg, mu, elemVars,
                  published >>

\* wg.Wait(); return nil.
MultiWait ==
  /\ handler = "HandleMultiPayKeysendEvent"
  /\ pc = "loop"
  /\ k = Len(keysends)
  /\ wg = 0
  /\ ret' = "nil"
  /\ pc' = "returned"
  /\ UNCHANGED << handler, request, runs, archive, signVars, keysends, k, wg, mu, elemVars,
                  published >>

\* keysendDTagValue: the element's Id, or its Pubkey when the Id is empty.
DTag(keysendInfo) ==
  << "d", IF keysendInfo.Id = "" THEN keysendInfo.Pubkey ELSE keysendInfo.Id >>

\* Variant: the amount is stored as given, without the division.
NewPayment_Undivided(keysendInfo) ==
  [Amount |-> keysendInfo.Amount, Preimage |-> NULL]

\* Payment{App, RequestEvent, Amount: uint(keysendInfo.Amount / 1000)}.
NewPayment(keysendInfo) ==
  [Amount |-> keysendInfo.Amount \div 1000, Preimage |-> NULL]

\* resp := svc.checkPermission(request, requestEvent, app, keysendInfo.Amount)
ElemCheckPermission(i) ==
  /\ epc[i] = "check"
  /\ \E r \in CheckPermissionResults(request.Method) :
       /\ resp' = [resp EXCEPT ![i] = r]
       /\ epc' = [epc EXCEPT ![i] = IF r # Nil THEN "denied" ELSE "lockCreate"]
  /\ UNCHANGED << handler, request, runs, archive, pc, ret, signVars, keysends, k, wg, mu,
                  insertResult, sendResult, saveResult, payment, db,
                  createCalls, sendCalls, analytics, published >>

\* if resp != nil { publishResponse(resp, nostr.Tags{dTag}) }: the block has
\* no return, the goroutine goes on to build and insert the Payment.
ElemPublishDenied(i) ==
  /\ epc[i] = "denied"
  /\ Publish(i, resp[i], << DTag(keysends[i]) >>)
  /\ epc' = [epc EXCEPT ![i] = "lockCreate"]
  /\ UNCHANGED << handler, request, runs, archive, pc, ret, signVars, keysends, k, wg, mu, resp,
                  insertResult, sendResult, saveResult, payment, db,
                  createCalls, sendCalls, analytics >>

\* payment := Payment{...}; mu.Lock()
ElemLockCreate(i) ==
  /\ epc[i] = "lockCreate"
  /\ mu = 0
  /\ mu' = i
  /\ payment' = [payment EXCEPT ![i] = NewPayment(keysends[i])]
  /\ epc' = [epc EXCEPT ![i] = "create"]
  /\ UNCHANGED << handler, request, runs, archive, pc, ret, signVars, keysends, k, wg, resp,
                  insertResult, sendResult, saveResult, db, createCalls,
                  sendCalls, analytics, published >>

\* insertPaymentResult := svc.db.Create(&payment)
ElemCreate(i) ==
  /\ epc[i] = "create"
  /\ createCalls' = [createCalls EXCEPT ![i] = @ + 1]
  /\ \/ /\ insertResult' = [insertResult EXCEPT ![i] = "ok"]
        /\ db' = [db EXCEPT ![i] = payment[i]]
     \/ /\ insertResult' = [insertResult EXCEPT ![i] = "error"]
        /\ UNCHANGED db
  /\ epc' = [epc EXCEPT ![i] = "unlockCreate"]
  /\ UNCHANGED << handler, request, runs, archive, pc, ret, signVars, keysends, k, wg, mu,
                  resp, sendResult, saveResult, payment, sendCalls, analytics,
                  published >>

\* Variant: the insert result is one variable shared by all goroutines.
CreateFailed_Shared(i) == \E j \in Slots : insertResult[j] = "error"

\* Variant: the insert error is not looked at.
CreateFailed_Unchecked(i) == FALSE

\* if insertPaymentResult.Error != nil { log; return }
CreateFailed(i) == insertResult[i] # "ok"

\* Variant: the error return comes before mu.Unlock().
ElemUnlockCreate_ReturnLocked(i) ==
  /\ epc[i] = "unlockCreate"
  /\ IF CreateFailed(i)
       THEN /\ epc' = [epc EXCEPT ![i] = "done"]
            /\ wg' = wg - 1
            /\ UNCHANGED mu
       ELSE /\ epc' = [epc EXCEPT ![i] = "send"]
            /\ mu' = 0
            /\ UNCHANGED wg
  /\ UNCHANGED << handler, request, runs, archive, pc, ret, signVars, keysends, k, resp,
                  insertResult, sendResult, saveResult, payment, db,
                  createCalls, sendCalls, analytics, published >>

\* mu.Unlock(); on a failed insert log and return (defer wg.Done()).
ElemUnlockCreate(i) ==
  /\ epc[i] = "unlockCreate"
  /\ mu' = 0
  /\ IF CreateFailed(i)
       THEN /\ epc' = [epc EXCEPT ![i] = "done"]
            /\ wg' = wg - 1
       ELSE /\ epc' = [epc EXCEPT ![i] = "send"]
            /\ UNCHANGED wg
  /\ UNCHANGED << handler, request, runs, archive, pc, ret, signVars, keysends, k, resp,
                  insertResult, sendResult, saveResult, payment, db,
                  createCalls, sendCalls, analytics, published >>

\* preimage, err := svc.lnClient.SendKeysend(ctx, Amount, Pubkey, ...)
ElemSendKeysend(i) ==
  /\ epc[i] = "send"
  /\ sendCalls' = [sendCalls EXCEPT ![i] = @ + 1]
  /\ \/ \E p \in Preimages :
          /\ sendResult' = [sendResult EXCEPT ![i] = [preimage |-> p, err |-> NULL]]
          /\ epc' = [epc EXCEPT ![i] = "lockSave"]
     \/ \E e \in BackendErrors :
          /\ sendResult' = [sendResult EXCEPT ![i] = [preimage |-> "", err |-> e]]
          /\ epc' = [epc EXCEPT ![i] = "logFailed"]
  /\ UNCHANGED << handler, request, runs, archive, pc, ret, signVars, keysends, k, wg, mu,
                  resp, insertResult, saveResult, payment, db, createCalls,
                  analytics, published >>

\* Variant: a failed payment is retried once before the error is reported.
ElemLogFailed_Retry(i) ==
  /\ epc[i] = "logFailed"
  /\ analytics' = [analytics EXCEPT ![i] = Append(@, "nwc_payment_failed")]
  /\ epc' = [epc EXCEPT ![i] =
               IF sendCalls[i] < 2 THEN "send" ELSE "publishFailed"]
  /\ UNCHANGED << handler, request, runs, archive, pc, ret, signVars, keysends,
                  k, wg, mu, resp, insertResult, sendResult, saveResult,
                  payment, db, createCalls, sendCalls, published >>

\* svc.EventLogger.Log(ctx, "nwc_payment_failed")
ElemLogFailed(i) ==
  /\ epc[i] = "logFailed"
  /\ analytics' = [analytics EXCEPT ![i] = Append(@, "nwc_payment_failed")]
  /\ epc' = [epc EXCEPT ![i] = "publishFailed"]
  /\ UNCHANGED << handler, request, runs, archive, pc, ret, signVars, keysends, k, wg, mu,
                  resp, insertResult, sendResult, saveResult, payment, db,
                  createCalls, sendCalls, published >>

KeysendErrorResponse(i) ==
  ErrorResponse(request.Method, NIP_47_ERROR_INTERNAL, sendResult[i].err)

\* publishResponse(error INTERNAL, nostr.Tags{dTag}); return
ElemPublishFailed(i) ==
  /\ epc[i] = "publishFailed"
  /\ Publish(i, KeysendErrorResponse(i), << DTag(keysends[i]) >>)
  /\ epc' = [epc EXCEPT ![i] = "done"]
  /\ wg' = wg - 1
  /\ UNCHANGED << handler, request, runs, archive, pc, ret, signVars, keysends, k, mu, resp,
                  insertResult, sendResult, saveResult, payment, db,
                  createCalls, sendCalls, analytics >>

\* payment.Preimage = &preimage; mu.Lock()
ElemLockSave(i) ==
  /\ epc[i] = "lockSave"
  /\ mu = 0
  /\ mu' = i
  /\ payment' = [payment EXCEPT ![i].Preimage = sendResult[i].preimage]
  /\ epc' = [epc EXCEPT ![i] = "save"]
  /\ UNCHANGED << handler, request, runs, archive, pc, ret, signVars, keysends, k, wg, resp,
                  insertResult, sendResult, saveResult, db, createCalls,
                  sendCalls, analytics, published >>

\* svc.db.Save(&payment): the result is not looked at.
ElemSave(i) ==
  /\ epc[i] = "save"
  /\ \/ /\ saveResult' = [saveResult EXCEPT ![i] = "ok"]
        /\ db' = [db EXCEPT ![i] = payment[i]]
     \/ /\ saveResult' = [saveResult EXCEPT ![i] = "error"]
        /\ UNCHANGED db
  /\ epc' = [epc EXCEPT ![i] = "unlockSave"]
  /\ UNCHANGED << handler, request, runs, archive, pc, ret, signVars, keysends, k, wg, mu,
                  resp, insertResult, sendResult, payment, createCalls,
                  sendCalls, analytics, published >>

\* Variant: the mutex is not released after Save.
ElemUnlockSave_KeepLocked(i) ==
  /\ epc[i] = "unlockSave"
  /\ epc' = [epc EXCEPT ![i] = "logSucceeded"]
  /\ UNCHANGED << handler, request, runs, archive, pc, ret, signVars, keysends,
                  k, wg, mu, resp, insertResult, sendResult, saveResult,
                  payment, db, createCalls, sendCalls, analytics, published >>

\* mu.Unlock()
ElemUnlockSave(i) ==
  /\ epc[i] = "unlockSave"
  /\ mu' = 0
  /\ epc' = [epc EXCEPT ![i] = "logSucceeded"]
  /\ UNCHANGED << handler, request, runs, archive, pc, ret, signVars, keysends, k, wg, resp,
                  insertResult, sendResult, saveResult, payment, db,
                  createCalls, sendCalls, analytics, published >>

\* svc.EventLogger.Log(ctx, "nwc_payment_succeeded")
ElemLogSucceeded(i) ==
  /\ epc[i] = "logSucceeded"
  /\ analytics' = [analytics EXCEPT ![i] = Append(@, "nwc_payment_succeeded")]
  /\ epc' = [epc EXCEPT ![i] = "publishResult"]
  /\ UNCHANGED << handler, request, runs, archive, pc, ret, signVars, keysends, k, wg, mu,
                  resp, insertResult, sendResult, saveResult, payment, db,
                  createCalls, sendCalls, published >>

KeysendSuccessResponse(i) ==
  ResultResponse(request.Method, [Preimage |-> sendResult[i].preimage])

\* publishResponse(Result{Preimage}, nostr.Tags{dTag}); the goroutine ends.
ElemPublishResult(i) ==
  /\ epc[i] = "publishResult"
  /\ Publish(i, KeysendSuccessResponse(i), << DTag(keysends[i]) >>)
  /\ epc' = [epc EXCEPT ![i] = "done"]
  /\ wg' = wg - 1
  /\ UNCHANGED << handler, request, runs, archive, pc, ret, signVars, keysends, k, mu, resp,
                  insertResult, sendResult, saveResult, payment, db,
                  createCalls, sendCalls, analytics >>

ElemNext(i) ==
  \/ ElemCheckPermission(i)
  \/ ElemPublishDenied(i)
  \/ ElemLockCreate(i)
  \/ ElemCreate(i)
  \/ ElemUnlockCreate(i)
  \/ ElemSendKeysend(i)
  \/ ElemLogFailed(i)
  \/ ElemPublishFailed(i)
  \/ ElemLockSave(i)
  \/ ElemSave(i)
  \/ ElemUnlockSave(i)
  \/ ElemLogSucceeded(i)
  \/ ElemPublishResult(i)

MultiNext ==
  \/ MultiDecode
  \/ MultiSpawn
  \/ MultiWait
  \/ \E i \in Slots : ElemNext(i)

Next == SignNext \/ MultiNext

Spec == Init /\ [][Next]_vars

\* ======================================================================
\* Properties
\* ======================================================================
IsSign == handler = "HandleSignMessageEvent"

IsMulti == handler = "HandleMultiPayKeysendEvent"

\* The elements of the decoded batch.
Elems == 1..Len(keysends)

Done(i) == epc[i] = "done"

Denied(i) == resp[i] # Nil

SendOk(i) == sendResult[i] # Nil /\ sendResult[i].err = NULL

SendFailed(i) == sendResult[i] # Nil /\ sendResult[i].err # NULL

\* The correlation key of element i: its Id, or its Pubkey without an Id.
Key(i) == IF keysends[i].Id # "" THEN keysends[i].Id ELSE keysends[i].Pubkey

KeyTags(i) == << << "d", Key(i) >> >>

IsError(e) == e.resp.Error # Nil /\ e.resp.Result = Nil

IsResult(e) == e.resp.Result # Nil /\ e.resp.Error = Nil

Kind(e) == IF e.resp.Error # Nil THEN "error" ELSE "result"

\* ---------------------------------------------------------------- C1
\* C1: a decoded batch of N elements gets exactly N publishResponse calls,
\* one per element (never more, and one once the handler has returned), each
\* tagged ["d", k] with k the element's Id, or its Pubkey without an Id.
C1_OneResponsePerElement ==
  IsMulti =>
    /\ published[0] = << >>
    /\ \A i \in Elems :
         /\ Len(published[i]) <= 1
         /\ \A n \in 1..Len(published[i]) : published[i][n].tags = KeyTags(i)
         /\ (pc = "returned" \/ Done(i)) => Len(published[i]) = 1

\* ---------------------------------------------------------------- C2
\* C2: a denied element ends with exactly one published response, the
\* permission error; no Payment is created and SendKeysend is never called.
C2_DeniedElementStops ==
  \A i \in Elems :
    Denied(i) =>
      /\ createCalls[i] = 0
      /\ db[i] = Nil
      /\ sendCalls[i] = 0
      /\ Done(i) => published[i] = << [resp |-> resp[i], tags |-> KeyTags(i)] >>

\* ---------------------------------------------------------------- C3
\* What is observable of element j: its responses in order (error or
\* result), whether a Payment row exists and whether the row has a preimage.
Outcome(j) ==
  [kinds       |-> [n \in 1..Len(published[j]) |-> Kind(published[j][n])],
   hasPayment  |-> db[j] # Nil,
   hasPreimage |-> db[j] # Nil /\ db[j].Preimage # NULL]

\* The outcome as a function of one element's own results only.
OwnOutcome(permission, insert, send, save) ==
  LET denial == IF permission # Nil THEN << "error" >> ELSE << >>
  IN  IF insert # "ok"
        THEN [kinds |-> denial, hasPayment |-> FALSE, hasPreimage |-> FALSE]
        ELSE IF send.err # NULL
          THEN [kinds |-> denial \o << "error" >>,
                hasPayment |-> TRUE, hasPreimage |-> FALSE]
          ELSE [kinds |-> denial \o << "result" >>,
                hasPayment |-> TRUE, hasPreimage |-> save = "ok"]

\* C3: the outcome of a finished element j is a function of j's own
\* permission, ledger-write and backend results, whatever the results of its
\* siblings and whatever the interleaving.
C3_OutcomeDependsOnOwnResults ==
  \A j \in Elems :
    Done(j) =>
      /\ insertResult[j] = "ok" => sendResult[j] # Nil
      /\ Outcome(j) = OwnOutcome(resp[j], insertResult[j], sendResult[j],
                                 saveResult[j])

\* Element j succeeded while one sibling was denied and another sibling, or
\* the same one, failed at the backend.
C3_Witness ==
  \E i \in Elems, j \in Elems :
    /\ i # j
    /\ Done(i) /\ Denied(i) /\ SendFailed(i)
    /\ Done(j) /\ ~Denied(j) /\ SendOk(j) /\ saveResult[j] = "ok"
    /\ Len(published[j]) = 1 /\ IsResult(published[j][1])

\* ---------------------------------------------------------------- C4
\* C4: when the params do not decode, either handler publishes exactly one
\* error response, creates no Payment and calls no backend operation.
C4_DecodeFailureAnswered ==
  (pc = "returned" /\ ~request.Params.valid) =>
    /\ Len(published[0]) = 1
    /\ IsError(published[0][1])
    /\ \A i \in Slots : published[i] = << >> /\ db[i] = Nil /\ sendCalls[i] = 0
    /\ signCalls = 0

\* ---------------------------------------------------------------- C5
\* C5: HandleSignMessageEvent publishes exactly once before it returns, on
\* every path, always with an empty tag list; the responses the handler builds
\* itself (after the SignMessage call) carry the request's Method as
\* ResultType and either a Result or an Error, never both.
C5_SignPublishesOnce ==
  IsSign =>
    /\ Len(published[0]) = (IF pc = "returned" THEN 1 ELSE 0)
    /\ \A i \in Slots : published[i] = << >>
    /\ \A n \in 1..Len(published[0]) :
         LET e == published[0][n]
         IN  /\ e.tags = << >>
             /\ signCalls > 0 =>
                  /\ e.resp.ResultType = request.Method
                  /\ IsError(e) # IsResult(e)
                  /\ IsError(e) <=> signResult.err # NULL

\* The handler returned after a failed SignMessage call.
C5_Witness ==
  /\ IsSign
  /\ pc = "returned"
  /\ signCalls = 1
  /\ signResult.err # NULL
  /\ Len(published[0]) = 1

\* ---------------------------------------------------------------- C6
\* C6: when SendKeysend is about to be called for an element, a pending
\* Payment (no preimage) has been persisted for it by a successful Create;
\* SendKeysend has never been called for an element without a persisted row.
C6_PendingBeforeSend ==
  \A i \in Elems :
    /\ epc[i] = "send" =>
         /\ insertResult[i] = "ok"
         /\ db[i] # Nil
         /\ db[i].Preimage = NULL
    /\ sendCalls[i] > 0 => db[i] # Nil

\* SendKeysend has been called for an element.
C6_Witness ==
  \E i \in Elems : sendCalls[i] = 1 /\ db[i] # Nil /\ insertResult[i] = "ok"

\* ---------------------------------------------------------------- C7
\* C7: a persisted Payment has a preimage only if the element's SendKeysend
\* succeeded, and then the one it returned; and once an element whose
\* SendKeysend succeeded has finished, its persisted Payment holds that
\* preimage, also when the Save write failed.
C7_PreimageIffBackendSuccess ==
  \A i \in Elems :
    /\ (db[i] # Nil /\ db[i].Preimage # NULL) =>
         (SendOk(i) /\ db[i].Preimage = sendResult[i].preimage)
    /\ (Done(i) /\ SendOk(i)) =>
         (db[i] # Nil /\ db[i].Preimage = sendResult[i].preimage)

\* ---------------------------------------------------------------- C8
\* C8: after SendKeysend fails, the element's Payment row is kept and differs
\* from the pending row Create wrote, and exactly one response is published
\* for the element: an INTERNAL error with the backend's error text, with the
\* request's Method as ResultType, tagged with the element's key.
C8_BackendFailureFinalized ==
  \A i \in Elems :
    (Done(i) /\ SendFailed(i)) =>
      /\ db[i] # Nil
      /\ db[i] # NewPayment(keysends[i])
      /\ published[i] =
           << [resp |-> ErrorResponse(request.Method, NIP_47_ERROR_INTERNAL,
                                      sendResult[i].err),
               tags |-> KeyTags(i)] >>

\* ---------------------------------------------------------------- C9
\* C9: when Create fails for an element, SendKeysend is never called for it
\* and no row exists for it; the element leaves the mutex free when it ends,
\* so its siblings go on.
C9_NoSendWithoutRow ==
  \A i \in Elems :
    insertResult[i] = "error" =>
      /\ sendCalls[i] = 0
      /\ sendResult[i] = Nil
      /\ db[i] = Nil
      /\ epc[i] \in {"unlockCreate", "done"}
      /\ Done(i) => mu # i

\* An element's Create failed and it ended; a sibling that took the mutex
\* afterwards got its payment sent and answered.
C9_Witness ==
  \E i \in Elems, j \in Elems :
    /\ i # j
    /\ insertResult[i] = "error" /\ Done(i) /\ sendCalls[i] = 0
    /\ insertResult[j] = "ok" /\ Done(j) /\ SendOk(j)

\* ---------------------------------------------------------------- C10
\* C10: when Create fails for an element, exactly one error response tagged
\* with the element's key is published for it.
C10_CreateFailureAnswered ==
  \A i \in Elems :
    (Done(i) /\ insertResult[i] = "error") =>
      /\ Len(published[i]) = 1
      /\ IsError(published[i][1])
      /\ published[i][1].tags = KeyTags(i)

\* ---------------------------------------------------------------- C11
\* The app's budget for the method, in the unit of Payment.Amount.
MaxAmount == 1

RECURSIVE SumAmounts(_, _)
SumAmounts(rows, n) ==
  IF n = 0 THEN 0
  ELSE (IF rows[n] = Nil THEN 0 ELSE rows[n].Amount) + SumAmounts(rows, n - 1)

\* Budget used so far: the sum of the amounts of the app's recorded Payments.
BudgetUsage == SumAmounts(db, MaxKeysends)

\* svc.checkPermission with a cumulative budget: denied when the recorded
\* usage plus the requested amount exceeds the budget.
CheckPermissionBudget(amount) ==
  IF BudgetUsage + (amount \div 1000) > MaxAmount
    THEN ErrorResponse(request.Method, "QUOTA_EXCEEDED", "permission denied")
    ELSE Nil

\* resp := svc.checkPermission(...) at line 401, outside the mutex.
ElemCheckPermissionBudget(i) ==
  /\ epc[i] = "check"
  /\ LET r == CheckPermissionBudget(keysends[i].Amount)
     IN  /\ resp' = [resp EXCEPT ![i] = r]
         /\ epc' = [epc EXCEPT ![i] = IF r # Nil THEN "denied" ELSE "lockCreate"]
  /\ UNCHANGED << handler, request, runs, archive, pc, ret, signVars, keysends, k, wg, mu,
                  insertResult, sendResult, saveResult, payment, db,
                  createCalls, sendCalls, analytics, published >>

ElemNextBudget(i) ==
  \/ ElemCheckPermissionBudget(i)
  \/ ElemPublishDenied(i)
  \/ ElemLockCreate(i)
  \/ ElemCreate(i)
  \/ ElemUnlockCreate(i)
  \/ ElemSendKeysend(i)
  \/ ElemLogFailed(i)
  \/ ElemPublishFailed(i)
  \/ ElemLockSave(i)
  \/ ElemSave(i)
  \/ ElemUnlockSave(i)
  \/ ElemLogSucceeded(i)
  \/ ElemPublishResult(i)

InitBudget == Init /\ IsMulti

NextBudget ==
  \/ MultiDecode
  \/ MultiSpawn
  \/ MultiWait
  \/ \E i \in Slots : ElemNextBudget(i)

SpecBudget == InitBudget /\ [][NextBudget]_vars

Sats(i) == keysends[i].Amount \div 1000

Approved(i) == epc[i] \notin {"idle", "check"} /\ resp[i] = Nil

\* C11: two sibling elements whose amounts each fit the budget but together
\* exceed it are never both approved by checkPermission and both sent to
\* SendKeysend.
C11_SiblingsNotBothApproved ==
  \A i \in Elems, j \in Elems :
    (/\ i # j
     /\ Sats(i) <= MaxAmount
     /\ Sats(j) <= MaxAmount
     /\ Sats(i) + Sats(j) > MaxAmount)
    => ~(/\ Approved(i) /\ sendCalls[i] = 1
         /\ Approved(j) /\ sendCalls[j] = 1)

\* ---------------------------------------------------------------- C12
\* The Go scheduler runs every runnable goroutine: the handler's own
\* goroutine and each element goroutine take their next step when one stays
\* possible (every call returns; a goroutine waiting in mu.Lock goes on once
\* the mutex is free).
\* Termination does not depend on the elements' data: the batches here are
\* made of one kind of element, in every size.
InitFair ==
  /\ Init
  /\ IsMulti
  /\ \A n \in 1..Len(request.Params.Keysends) :
       request.Params.Keysends[n].Id # ""

SpecFair ==
  /\ InitFair
  /\ [][MultiNext]_vars
  /\ WF_vars(MultiDecode \/ MultiSpawn \/ MultiWait)
  /\ \A i \in Slots : WF_vars(ElemNext(i))

\* C12: HandleMultiPayKeysendEvent has returned only when every element
\* goroutine of the batch has finished, the mutex is free and the WaitGroup
\* is at zero; and under fair scheduling it always returns, for every batch
\* size from 0 up.
C12_ReturnsAfterAllElements ==
  /\ [](IsMulti /\ pc = "returned" =>
          /\ \A i \in Elems : Done(i)
          /\ \A i \in Slots : epc[i] \in {"idle", "done"}
          /\ mu = 0
          /\ wg = 0)
  /\ (IsMulti ~> pc = "returned")

\* The handler returned nil after a batch of two elements, both finished.
C12_Witness ==
  /\ IsMulti
  /\ pc = "returned"
  /\ ret = "nil"
  /\ Len(keysends) = 2
  /\ \A i \in Elems : Done(i)

\* ---------------------------------------------------------------- C13
\* C13, as claimed: the persisted Payment.Amount represents the same value
\* as the element's amount a, as passed to SendKeysend, without loss.
C13_AmountMatchesInput ==
  \A i \in Elems :
    db[i] # Nil =>
      /\ (db[i].Amount = keysends[i].Amount
            \/ db[i].Amount * 1000 = keysends[i].Amount)
      /\ (keysends[i].Amount > 0 => db[i].Amount > 0)

\* C13, amended: the persisted Payment.Amount is the element's amount a
\* (a >= 0) divided by 1000 and rounded down, from Create to the end: amounts
\* below 1000 are recorded as 0 and remainders below 1000 are dropped.
C13_AmountIsWholeThousands ==
  \A i \in Elems :
    db[i] # Nil =>
      /\ db[i].Amount * 1000 <= keysends[i].Amount
      /\ keysends[i].Amount < (db[i].Amount + 1) * 1000

\* A batch with an amount of 1500 recorded as 1 and one of 500 recorded as 0,
\* the first finalized by Save.
C13_Witness ==
  \E i \in Elems, j \in Elems :
    /\ db[i] # Nil /\ keysends[i].Amount = 1500 /\ db[i].Amount = 1
    /\ db[i].Preimage # NULL
    /\ db[j] # Nil /\ keysends[j].Amount = 500 /\ db[j].Amount = 0

\* ---------------------------------------------------------------- C14
\* The transport delivers the same RequestEvent again: the handler is invoked
\* once more with the same request, against the same ledger and backend.  The
\* rows of the earlier invocation stay in the ledger; the call counters go on.
Reinvoke ==
  /\ IsMulti
  /\ pc = "returned"
  /\ runs < MaxInvocations
  /\ runs' = runs + 1
  /\ archive' = [i \in Slots |-> archive[i] + (IF db[i] # Nil THEN 1 ELSE 0)]
  /\ pc' = "decode"
  /\ ret' = "none"
  /\ keysends' = << >>
  /\ k' = 0
  /\ wg' = 0
  /\ mu' = 0
  /\ epc' = [i \in Slots |-> "idle"]
  /\ resp' = [i \in Slots |-> Nil]
  /\ insertResult' = [i \in Slots |-> "none"]
  /\ sendResult' = [i \in Slots |-> Nil]
  /\ saveResult' = [i \in Slots |-> "none"]
  /\ payment' = [i \in Slots |-> Nil]
  /\ db' = [i \in Slots |-> Nil]
  /\ analytics' = [i \in Slots |-> << >>]
  /\ published' = [u \in 0..MaxKeysends |-> << >>]
  /\ UNCHANGED << handler, request, signVars, createCalls, sendCalls >>

InitTwice == Init /\ IsMulti

NextTwice == MultiNext \/ Reinvoke

SpecTwice == InitTwice /\ [][NextTwice]_vars

\* Payment rows in the ledger for element i of this RequestEvent.
Rows(i) == archive[i] + (IF db[i] # Nil THEN 1 ELSE 0)

\* C14: over two invocations for the same RequestEvent, SendKeysend is
\* called at most once per element and at most one Payment row exists per
\* (RequestEvent, element).
C14_NoDoubleSpend ==
  \A i \in Slots :
    /\ sendCalls[i] <= 1
    /\ Rows(i) <= 1

\* ---------------------------------------------------------------- C15
\* Positions between mu.Lock() and mu.Unlock(): inside db.Create or db.Save,
\* or about to unlock.
InCritical(i) == epc[i] \in {"create", "unlockCreate", "save", "unlockSave"}

\* C15: at most one element goroutine is between Lock and Unlock, and it is
\* the holder of the mutex; the mutex is held nowhere else, in particular not
\* during checkPermission, SendKeysend, EventLogger.Log or publishResponse;
\* a goroutine that has ended holds nothing, and while the handler has not
\* returned some step is always possible (no deadlock).
C15_MutexAroundWritesOnly ==
  IsMulti =>
    /\ \A i \in Slots, j \in Slots : (InCritical(i) /\ InCritical(j)) => i = j
    /\ \A i \in Slots : InCritical(i) <=> mu = i
    /\ mu # 0 => mu \in Elems
    /\ \A i \in Slots :
         epc[i] \in {"check", "denied", "send", "logFailed", "publishFailed",
                     "logSucceeded", "publishResult", "done"} => mu # i
    /\ pc # "returned" => ENABLED MultiNext

\* One element is inside db.Create, holding the mutex, while a sibling is
\* in its SendKeysend call.
C15_Witness ==
  \E i \in Elems, j \in Elems :
    /\ i # j
    /\ epc[i] = "send"
    /\ epc[j] = "create"
    /\ mu = j

\* ---------------------------------------------------------------- C16
\* svc.EventLogger.Log is called in the element's goroutine and the
\* goroutine waits for it; here the call may also never return.
ElemLogBlocks(i) ==
  /\ epc[i] \in {"logFailed", "logSucceeded"}
  /\ epc' = [epc EXCEPT ![i] = "logBlocked"]
  /\ UNCHANGED << handler, request, runs, archive, pc, ret, signVars, keysends,
                  k, wg, mu, resp, insertResult, sendResult, saveResult,
                  payment, db, createCalls, sendCalls, analytics, published >>

InitLog == Init /\ IsMulti

NextLog == MultiNext \/ \E i \in Slots : ElemLogBlocks(i)

SpecLog == InitLog /\ [][NextLog]_vars

\* The response that answers element i's SendKeysend call.
SendResponse(i) ==
  [resp |-> IF SendOk(i) THEN KeysendSuccessResponse(i)
                         ELSE KeysendErrorResponse(i),
   tags |-> KeyTags(i)]

\* C16: an element whose SendKeysend has returned and whose Log call never
\* returns (the goroutine takes no further step) has its response published,
\* the same one as when Log returns.
C16_LogNeverBlocksResponse ==
  \A i \in Elems :
    epc[i] = "logBlocked" =>
      /\ Len(published[i]) >= 1
      /\ published[i][Len(published[i])] = SendResponse(i)

\* ---------------------------------------------------------------- C17
\* C17: within one invocation SendKeysend and db.Create are each called at
\* most once per element (no retry after a backend error), and an element
\* whose backend call failed keeps its Payment row to the end.
C17_NoRetryRowKept ==
  \A i \in Slots :
    /\ sendCalls[i] <= 1
    /\ createCalls[i] <= 1
    /\ SendFailed(i) =>
         /\ sendCalls[i] = 1
         /\ db[i] # Nil
         /\ epc[i] \in {"logFailed", "publishFailed", "done"}

\* An element ended after its only SendKeysend call failed; its row is there.
C17_Witness ==
  \E i \in Elems :
    /\ Done(i)
    /\ SendFailed(i)
    /\ sendCalls[i] = 1
    /\ createCalls[i] = 1
    /\ db[i] # Nil

\* ---------------------------------------------------------------- C18
\* C18: HandleSignMessageEvent consults checkPermission only once the params
\* decoded, calls SignMessage at most once and only after decoding succeeded
\* and checkPermission allowed, answers a success with the decoded message
\* and the signature the backend returned, and touches no Payment.
C18_SignGatesInOrder ==
  IsSign =>
    /\ pc \in {"check", "denied", "sign", "signed", "signFailed"} =>
         (request.Params.valid /\ signParams = request.Params.Message)
    /\ ~request.Params.valid =>
         (pc \in {"decode", "decodeFailed", "returned"} /\ signCalls = 0)
    /\ signCalls <= 1
    /\ signCalls = 1 => (request.Params.valid /\ signResp = Nil)
    /\ signResp # Nil => signCalls = 0
    /\ (pc = "returned" /\ signCalls = 1 /\ signResult.err = NULL) =>
         published[0] =
           << [resp |-> ResultResponse(request.Method,
                          [Message   |-> request.Params.Message,
                           Signature |-> signResult.signature]),
               tags |-> << >>] >>
    /\ \A i \in Slots :
         db[i] = Nil /\ createCalls[i] = 0 /\ sendCalls[i] = 0 /\ archive[i] = 0

\* The handler returned after a successful SignMessage call.
C18_Witness ==
  /\ IsSign
  /\ pc = "returned"
  /\ signCalls = 1
  /\ signResult.err = NULL
  /\ Len(published[0]) = 1
  /\ published[0][1].resp.Result # Nil

\* ---------------------------------------------------------------- C19
\* C19: HandleMultiPayKeysendEvent returns a non-nil error exactly when the
\* params did not decode, and then no element goroutine was started; once
\* they decode it returns nil, whatever happened to the elements.
C19_ErrorOnlyOnDecodeFailure ==
  IsMulti =>
    /\ pc # "returned" <=> ret = "none"
    /\ ret = "err" <=> (pc = "returned" /\ ~request.Params.valid)
    /\ ret = "nil" <=> (pc = "returned" /\ request.Params.valid)
    /\ ret = "err" =>
         /\ k = 0
         /\ wg = 0
         /\ \A i \in Slots : epc[i] = "idle" /\ published[i] = << >>

\* nil was returned for a batch in which one element was denied and failed
\* at the backend and another one's Payment could not be persisted.
C19_Witness ==
  /\ IsMulti
  /\ pc = "returned"
  /\ ret = "nil"
  /\ \E i \in Elems, j \in Elems :
       /\ Denied(i) /\ SendFailed(i)
       /\ insertResult[j] = "error"

====
